---- MODULE Spec2Model ----
(***************************************************************************)
(* Model of versiontracker (src/main.py): version normalisation and        *)
(* comparison, the semaphore-gated concurrent lookup of latest versions,   *)
(* and the classification loop of main_async.                              *)
(*                                                                         *)
(* Strings are sequences of characters; a character is a one-token string. *)
(* "U+FF11" stands for the fullwidth digit one, a character for which      *)
(* str.isdigit() is true and int() yields 1, but which is outside the      *)
(* ASCII range [0-9] accepted by the version parser.                       *)
(***************************************************************************)
EXTENDS Integers, Sequences, FiniteSets, TLC

VARIABLES
    \* ---- version functions applied to drawn inputs
    va, vb,          \* the two argument strings
    vout, vout2,     \* normalize_version(va) and normalize_version(vout)
    vres,            \* result of compare_versions(va, vb)
    vpc,             \* "input" | "normalized" | "renormalized" | "compared" | "idle"
    \* ---- the run of main_async
    pc_main,         \* position of main_async
    app_data,        \* list of records, each a list [name, identifier, installed (, latest)]
    tpc,             \* position of each fetch_latest_version_for_app task
    tries,           \* current_attempt of the retry client while a lookup is in flight
    sem_value,       \* asyncio.Semaphore._value
    waiters,         \* asyncio.Semaphore._waiters (FIFO of task numbers)
    updates,         \* the update list built by the classification loop
    idx,             \* loop index of the classification loop
    summary,         \* what the final summary printed
    retry_on_exc,    \* whether the installed retry client re-attempts after an exception
    probe,           \* observation of the first record's lookup: attempts made, last outcome
    url,             \* macupdater_url of each task
    shown            \* name and identifier each task printed in its progress line

vvars == <<va, vb, vout, vout2, vres, vpc>>
pvars == <<pc_main, app_data, tpc, tries, sem_value, waiters, updates, idx, summary,
           retry_on_exc, probe, url, shown>>
vars == <<va, vb, vout, vout2, vres, vpc, pc_main, app_data, tpc, tries, sem_value,
          waiters, updates, idx, summary, retry_on_exc, probe, url, shown>>

-----------------------------------------------------------------------------
(* Bounds *)

MaxLen == 3
NumRecords == 3
SEM_LIMIT == 1

-----------------------------------------------------------------------------
(* Characters *)

AsciiDigits == {"0", "1", "2", "3", "4", "5", "6", "7", "8", "9"}

UnicodeDigits == {"U+FF11"}

\* str.isdigit(): true of every Unicode digit, not only of 0-9
IsDigit(c) == c \in AsciiDigits \cup UnicodeDigits

DigitValue(c) ==
    CASE c = "0" -> 0 [] c = "1" -> 1 [] c = "2" -> 2 [] c = "3" -> 3 [] c = "4" -> 4
      [] c = "5" -> 5 [] c = "6" -> 6 [] c = "7" -> 7 [] c = "8" -> 8 [] c = "9" -> 9
      [] c = "U+FF11" -> 1

\* the characters the inputs of the version functions are drawn from
Alphabet == {"0", "1", ".", "v", "U+FF11"}

RECURSIVE StringsOfLen(_)
StringsOfLen(n) ==
    IF n = 0 THEN {<<>>}
    ELSE {Append(s, c) : s \in StringsOfLen(n - 1), c \in Alphabet}

Strings == UNION {StringsOfLen(n) : n \in 0..MaxLen}

-----------------------------------------------------------------------------
(* normalize_version *)

\* ''.join(c if c.isdigit() or c == '.' else '.' for c in version_string)
ReplaceNonDigits(s) ==
    [i \in 1..Len(s) |-> IF IsDigit(s[i]) \/ s[i] = "." THEN s[i] ELSE "."]

\* re.sub(r'\.+', '.', s)
RECURSIVE CollapseDots(_)
CollapseDots(s) ==
    IF Len(s) <= 1 THEN s
    ELSE IF s[1] = "." /\ s[2] = "." THEN CollapseDots(Tail(s))
    ELSE <<s[1]>> \o CollapseDots(Tail(s))

RECURSIVE LStripDots(_)
LStripDots(s) ==
    IF s # <<>> /\ s[1] = "." THEN LStripDots(Tail(s)) ELSE s

RECURSIVE RStripDots(_)
RStripDots(s) ==
    IF s # <<>> /\ s[Len(s)] = "." THEN RStripDots(SubSeq(s, 1, Len(s) - 1)) ELSE s

\* a strip that forgets the trailing dots
StripDots_leading_only(s) == LStripDots(s)

\* s.strip('.')
StripDots(s) == RStripDots(LStripDots(s))

normalize_version(version_string) ==
    StripDots(CollapseDots(ReplaceNonDigits(version_string)))

-----------------------------------------------------------------------------
(* packaging.version as used by compare_versions *)

\* split a string at its dots (empty pieces kept)
RECURSIVE SplitDots(_, _)
SplitDots(s, cur) ==
    IF s = <<>> THEN <<cur>>
    ELSE IF s[1] = "." THEN <<cur>> \o SplitDots(Tail(s), <<>>)
    ELSE SplitDots(Tail(s), Append(cur, s[1]))

\* the release segment  [0-9]+(\.[0-9]+)*  of the version pattern: the only
\* part of the pattern a string of digits and dots can match
MatchesRelease(s) ==
    LET parts == SplitDots(s, <<>>) IN
    \A i \in 1..Len(parts) :
        /\ parts[i] # <<>>
        /\ \A j \in 1..Len(parts[i]) : parts[i][j] \in AsciiDigits

\* a parser that accepts the empty string instead of rejecting it
InvalidVersion_empty_accepted(s) == s # <<>> /\ ~ MatchesRelease(s)

\* version.parse(s) raises InvalidVersion
InvalidVersion(s) == ~ MatchesRelease(s)

RECURSIVE ParseInt(_, _)
ParseInt(digits, acc) ==
    IF digits = <<>> THEN acc
    ELSE ParseInt(Tail(digits), 10 * acc + DigitValue(digits[1]))

\* Version.release: tuple(int(i) for i in release.split("."))
Release(s) ==
    LET parts == SplitDots(s, <<>>) IN
    [i \in 1..Len(parts) |-> ParseInt(parts[i], 0)]

\* _cmpkey: trailing zeros of the release are dropped before comparing
RECURSIVE DropTrailingZeros(_)
DropTrailingZeros(r) ==
    IF r # <<>> /\ r[Len(r)] = 0 THEN DropTrailingZeros(SubSeq(r, 1, Len(r) - 1)) ELSE r

\* Python tuple ordering: first differing element decides, a proper prefix is smaller
RECURSIVE TupleLess(_, _)
TupleLess(x, y) ==
    IF y = <<>> THEN FALSE
    ELSE IF x = <<>> THEN TRUE
    ELSE IF x[1] # y[1] THEN x[1] < y[1]
    ELSE TupleLess(Tail(x), Tail(y))

\* a comparison key that keeps the trailing zeros
CmpKey_zeros_kept(s) == Release(s)

\* Version._key: the release without its trailing zeros
CmpKey(s) == DropTrailingZeros(Release(s))

-----------------------------------------------------------------------------
(* compare_versions *)

\* a comparison that parses its arguments as they are, without normalizing them
compare_versions_unnormalized(installed_version, latest_version) ==
    LET ni == installed_version
        nl == latest_version
    IN  IF InvalidVersion(ni) \/ InvalidVersion(nl) THEN "unknown"
        ELSE IF TupleLess(CmpKey(ni), CmpKey(nl)) THEN "update_available"
        ELSE IF TupleLess(CmpKey(nl), CmpKey(ni)) THEN "up_to_date"
        ELSE "versions_equal"

compare_versions(installed_version, latest_version) ==
    LET ni == normalize_version(installed_version)
        nl == normalize_version(latest_version)
    IN  IF InvalidVersion(ni) \/ InvalidVersion(nl) THEN "unknown"
        ELSE IF TupleLess(CmpKey(ni), CmpKey(nl)) THEN "update_available"
        ELSE IF TupleLess(CmpKey(nl), CmpKey(ni)) THEN "up_to_date"
        ELSE "versions_equal"

-----------------------------------------------------------------------------
(* The version functions applied to inputs drawn from Strings *)

PipelineIdle ==
    /\ pc_main = "idle"
    /\ app_data = <<>>
    /\ tpc = <<>>
    /\ tries = <<>>
    /\ sem_value = 0
    /\ waiters = <<>>
    /\ updates = <<>>
    /\ idx = 0
    /\ summary = "none"
    /\ retry_on_exc = FALSE
    /\ probe = [attempts |-> 0, outcome |-> "none"]
    /\ url = <<>>
    /\ shown = <<>>

InitVersion ==
    /\ va \in Strings
    /\ vb = <<>>
    /\ vout = <<>>
    /\ vout2 = <<>>
    /\ vres = "none"
    /\ vpc = "input"
    /\ PipelineIdle

Normalize ==
    /\ vpc = "input"
    /\ vout' = normalize_version(va)
    /\ vpc' = "normalized"
    /\ UNCHANGED <<va, vb, vout2, vres>>
    /\ UNCHANGED pvars

NormalizeAgain ==
    /\ vpc = "normalized"
    /\ vout2' = normalize_version(vout)
    /\ vpc' = "renormalized"
    /\ UNCHANGED <<va, vb, vout, vres>>
    /\ UNCHANGED pvars

Compare ==
    /\ vpc = "input"
    /\ \E y \in Strings :
        /\ vb' = y
        /\ vres' = compare_versions(va, y)
    /\ vpc' = "compared"
    /\ UNCHANGED <<va, vout, vout2>>
    /\ UNCHANGED pvars

NextVersion == Normalize \/ NormalizeAgain \/ Compare

SpecVersion == InitVersion /\ [][NextVersion]_vars

-----------------------------------------------------------------------------
(* The run of main_async: inputs *)

\* ExponentialRetry(attempts=3)
MaxAttempts == 3

\* display names in the order main_async sorts them (case-insensitive), and the
\* bundle identifiers of the same applications
Names == <<"Alpha", "bravo", "Charlie", "delta", "Echo">>
Identifiers == <<"com.alpha", "com.bravo", "com.charlie", "com.delta", "com.echo">>

\* installed versions as load_all_info_plists produces them:
\* "", "1.0", "1.0 (1.1)" (version with build number) and "v" (no digit)
InstalledChoices ==
    << <<>>,
       <<"1", ".", "0">>,
       <<"1", ".", "0", " ", "(", "1", ".", "1", ")">>,
       <<"v">> >>

\* version strings the catalog page may show: "1.1" and "1.0.0"
LatestChoices == { <<"1", ".", "1">>, <<"1", ".", "0", ".", "0">> }

\* the record lists the run may start from: installed versions taken from
\* InstalledChoices starting at off and advancing by stride
AppDataFor(off, stride) ==
    [i \in 1..NumRecords |->
        <<Names[i], Identifiers[i],
          InstalledChoices[((off + stride * (i - 1)) % Len(InstalledChoices)) + 1]>>]

Tasks == 1..NumRecords

\* the identifier_mappings section of the configuration: one identifier corrected
identifier_mappings == [id \in {"com.bravo"} |-> "com.bravo.mac"]

\* a lookup that ignores the mapping table
Corrected_unmapped(bundle_identifier) == bundle_identifier

\* identifier_mappings.get(bundle_identifier, bundle_identifier)
Corrected(bundle_identifier) ==
    IF bundle_identifier \in DOMAIN identifier_mappings
    THEN identifier_mappings[bundle_identifier]
    ELSE bundle_identifier

\* f"https://macupdater.net/app_updates/appinfo/{corrected_bundle_identifier}/index.html"
MacupdaterUrl(app_entry) ==
    <<"https://macupdater.net/app_updates/appinfo/", Corrected(app_entry[2]), "/index.html">>

\* how one attempt of the GET can end
AttemptOutcomes ==
    {"found", "miss", "status5xx", "status4xx", "conn_error", "timeout",
     "payload_error", "decode_error"}

VersionIdle ==
    /\ va = <<>>
    /\ vb = <<>>
    /\ vout = <<>>
    /\ vout2 = <<>>
    /\ vres = "none"
    /\ vpc = "idle"

Init ==
    /\ VersionIdle
    /\ pc_main = "config"
    /\ \E off \in 0..(Len(InstalledChoices) - 1), stride \in {0, 1} :
            app_data = AppDataFor(off, stride)
    /\ tpc = [i \in Tasks |-> "none"]
    /\ tries = [i \in Tasks |-> 0]
    /\ sem_value = 0
    /\ waiters = <<>>
    /\ updates = <<>>
    /\ idx = 0
    /\ summary = "none"
    /\ retry_on_exc \in BOOLEAN
    /\ probe = [attempts |-> 0, outcome |-> "none"]
    /\ url = [i \in Tasks |-> <<>>]
    /\ shown = [i \in Tasks |-> <<>>]

-----------------------------------------------------------------------------
(* fetch_config and the start of the batch *)

\* the configuration is fetched and parsed; the records are loaded and sorted,
\* the semaphore is created and gather() creates one task per record
FetchConfigOk ==
    /\ pc_main = "config"
    /\ pc_main' = "gather"
    /\ sem_value' = SEM_LIMIT
    /\ tpc' = [i \in Tasks |-> "new"]
    /\ UNCHANGED <<app_data, tries, waiters, updates, idx, summary, retry_on_exc, probe>>
    /\ UNCHANGED <<url, shown>>
    /\ UNCHANGED vvars

\* fetch_config raises RuntimeError: sys.exit(1)
FetchConfigFail ==
    /\ pc_main = "config"
    /\ pc_main' = "exited"
    /\ UNCHANGED <<app_data, tpc, tries, sem_value, waiters, updates, idx, summary,
                   retry_on_exc, probe>>
    /\ UNCHANGED <<url, shown>>
    /\ UNCHANGED vvars

-----------------------------------------------------------------------------
(* asyncio.Semaphore *)

\* a semaphore that never reports itself locked
Locked_never == FALSE

\* Semaphore.locked(): no free slot, or somebody is queued
Locked == sem_value = 0 \/ waiters # <<>>

\* the first queued task whose future is not done yet, 0 if there is none
RECURSIVE FirstWaiting(_, _)
FirstWaiting(q, t) ==
    IF q = <<>> THEN 0
    ELSE IF t[q[1]] = "waiting" THEN q[1]
    ELSE FirstWaiting(Tail(q), t)

\* Semaphore._wake_up_next() after the value was raised to v: the slot is handed
\* to the first queued task that is still waiting
WakeUpNext(v, q, t) ==
    LET w == FirstWaiting(q, t) IN
    IF w = 0 THEN [value |-> v, t |-> t]
    ELSE [value |-> v - 1, t |-> [t EXCEPT ![w] = "granted"]]

\* a release that gives nothing back
Release_sem_lost(q, t) == [value |-> sem_value, t |-> t]

\* Semaphore.release()
Release_sem(q, t) == WakeUpNext(sem_value + 1, q, t)

Remove(q, i) == SelectSeq(q, LAMBDA j : j # i)

-----------------------------------------------------------------------------
(* fetch_latest_version_for_app *)

TasksRunning == pc_main \in {"gather", "crashed"}

\* first step of a task: up to the first suspension inside `async with semaphore`
TaskStart(i) ==
    /\ TasksRunning
    /\ tpc[i] = "new"
    /\ IF ~ Locked
         THEN /\ sem_value' = sem_value - 1
              /\ tpc' = [tpc EXCEPT ![i] = "lookup"]
              /\ tries' = [tries EXCEPT ![i] = 1]
              /\ UNCHANGED waiters
         ELSE /\ waiters' = Append(waiters, i)
              /\ tpc' = [tpc EXCEPT ![i] = "waiting"]
              /\ UNCHANGED <<sem_value, tries>>
    /\ UNCHANGED <<pc_main, app_data, updates, idx, summary, retry_on_exc, probe>>
    /\ url' = [url EXCEPT ![i] = MacupdaterUrl(app_data[i])]
    /\ UNCHANGED shown
    /\ UNCHANGED vvars

\* a task that was handed a slot resumes in acquire() and starts its lookup
TaskResume(i) ==
    /\ TasksRunning
    /\ tpc[i] = "granted"
    /\ LET q  == Remove(waiters, i)
           t1 == [tpc EXCEPT ![i] = "lookup"]
           r  == IF sem_value > 0 THEN WakeUpNext(sem_value, q, t1)
                 ELSE [value |-> sem_value, t |-> t1]
       IN  /\ waiters' = q
           /\ sem_value' = r.value
           /\ tpc' = r.t
    /\ tries' = [tries EXCEPT ![i] = 1]
    /\ UNCHANGED <<pc_main, app_data, updates, idx, summary, retry_on_exc, probe>>
    /\ UNCHANGED <<url, shown>>
    /\ UNCHANGED vvars

\* a retry client that re-attempts after everything but a found version
Retried_unless_found(o, k) == k < MaxAttempts /\ o # "found"

\* the retry client re-attempts after this outcome of attempt k
Retried(o, k) ==
    /\ k < MaxAttempts
    /\ \/ o = "status5xx"
       \/ o \in {"conn_error", "timeout"} /\ retry_on_exc

\* scrape_latest_version lets the exception of this outcome escape
Escapes(o) == o = "decode_error"

\* an attempt fails and the retry client starts the next one
AttemptRetry(i) ==
    /\ TasksRunning
    /\ tpc[i] = "lookup"
    /\ \E o \in AttemptOutcomes :
        /\ Retried(o, tries[i])
        /\ tries' = [tries EXCEPT ![i] = tries[i] + 1]
        /\ probe' = IF i = 1 THEN [attempts |-> tries[i], outcome |-> o] ELSE probe
    /\ UNCHANGED <<pc_main, app_data, tpc, sem_value, waiters, updates, idx, summary,
                   retry_on_exc>>
    /\ UNCHANGED <<url, shown>>
    /\ UNCHANGED vvars

\* the value scrape_latest_version returns for a final outcome
Scraped(o, v) == IF o = "found" THEN v ELSE <<>>

\* an append that lands in the first record whichever task makes it
Attach_first(data, i, latest_version) ==
    [data EXCEPT ![1] = Append(data[1], latest_version)]

\* app_entry.append(latest_version)
Attach(data, i, latest_version) ==
    [data EXCEPT ![i] = Append(data[i], latest_version)]

\* the lookup returns: the slot is released, the result is appended to the record
\* and the progress line is printed
LookupReturns(i) ==
    /\ TasksRunning
    /\ tpc[i] = "lookup"
    /\ \E o \in AttemptOutcomes, v \in LatestChoices :
        /\ ~ Retried(o, tries[i])
        /\ ~ Escapes(o)
        /\ o # "found" => v = CHOOSE x \in LatestChoices : TRUE
        /\ LET r == Release_sem(waiters, [tpc EXCEPT ![i] = "done"]) IN
            /\ sem_value' = r.value
            /\ tpc' = r.t
        /\ app_data' = Attach(app_data, i, Scraped(o, v))
        /\ probe' = IF i = 1 THEN [attempts |-> tries[i], outcome |-> o] ELSE probe
    /\ tries' = [tries EXCEPT ![i] = 0]
    /\ shown' = [shown EXCEPT ![i] = <<app_data[i][1], app_data[i][2]>>]
    /\ UNCHANGED <<pc_main, waiters, updates, idx, summary, retry_on_exc, url>>
    /\ UNCHANGED vvars

\* the lookup raises an exception scrape_latest_version does not catch: the slot
\* is released, the task ends with the exception, its record is left as it was
LookupRaises(i) ==
    /\ TasksRunning
    /\ tpc[i] = "lookup"
    /\ \E o \in AttemptOutcomes :
        /\ ~ Retried(o, tries[i])
        /\ Escapes(o)
        /\ probe' = IF i = 1 THEN [attempts |-> tries[i], outcome |-> o] ELSE probe
    /\ LET r == Release_sem(waiters, [tpc EXCEPT ![i] = "raised"]) IN
        /\ sem_value' = r.value
        /\ tpc' = r.t
    /\ tries' = [tries EXCEPT ![i] = 0]
    /\ UNCHANGED <<pc_main, app_data, waiters, updates, idx, summary, retry_on_exc>>
    /\ UNCHANGED <<url, shown>>
    /\ UNCHANGED vvars

-----------------------------------------------------------------------------
(* fetch_latest_versions: the gather over the tasks *)

\* a gather that returns as soon as one task is done
GatherReady_first == \E i \in Tasks : tpc[i] = "done"

\* gather returns when every task has returned
GatherReady == \A i \in Tasks : tpc[i] = "done"

GatherReturns ==
    /\ pc_main = "gather"
    /\ GatherReady
    /\ pc_main' = "classify"
    /\ updates' = <<>>
    /\ idx' = 1
    /\ UNCHANGED <<app_data, tpc, tries, sem_value, waiters, summary, retry_on_exc, probe>>
    /\ UNCHANGED <<url, shown>>
    /\ UNCHANGED vvars

\* gather re-raises the first exception of a task; main_async ends with it
GatherRaises ==
    /\ pc_main = "gather"
    /\ \E i \in Tasks : tpc[i] = "raised"
    /\ pc_main' = "crashed"
    /\ UNCHANGED <<app_data, tpc, tries, sem_value, waiters, updates, idx, summary,
                   retry_on_exc, probe>>
    /\ UNCHANGED <<url, shown>>
    /\ UNCHANGED vvars

Count(t, st) == Cardinality({i \in Tasks : t[i] = st})

\* asyncio.run cancels the tasks still pending; each gives back the slot it holds
Shutdown ==
    /\ pc_main = "crashed"
    /\ pc_main' = "terminated"
    /\ tpc' = [i \in Tasks |->
                 IF tpc[i] \in {"new", "waiting", "granted", "lookup"}
                 THEN "cancelled" ELSE tpc[i]]
    /\ tries' = [i \in Tasks |-> 0]
    /\ sem_value' = sem_value + Count(tpc, "lookup") + Count(tpc, "granted")
    /\ waiters' = <<>>
    /\ UNCHANGED <<app_data, updates, idx, summary, retry_on_exc, probe>>
    /\ UNCHANGED <<url, shown>>
    /\ UNCHANGED vvars

-----------------------------------------------------------------------------
(* main_async: classification and summary *)

\* x.startswith(y)
StartsWith(x, y) == Len(y) <= Len(x) /\ SubSeq(x, 1, Len(y)) = y

\* y in x
RECURSIVE Contains(_, _)
Contains(x, y) ==
    IF StartsWith(x, y) THEN TRUE
    ELSE IF x = <<>> THEN FALSE
    ELSE Contains(Tail(x), y)

\* a pre-filter that only looks at the start of the installed version
PreFiltered_prefix_only(installed, latest) == StartsWith(installed, latest)

\* latest_version in installed_version or installed_version.startswith(latest_version)
PreFiltered(installed, latest) ==
    Contains(installed, latest) \/ StartsWith(installed, latest)

\* the body of the classification loop appends this record to updates
Appended(app_entry) ==
    IF Len(app_entry) < 4 THEN FALSE
    ELSE LET installed == app_entry[3]
             latest    == app_entry[4]
         IN  IF installed = <<>> \/ latest = <<>> THEN FALSE
             ELSE IF PreFiltered(installed, latest) THEN FALSE
             ELSE compare_versions(installed, latest) = "update_available"

\* a loop body that puts the record in front of the list
Collect_front(u, app_entry) == <<app_entry>> \o u

\* updates.append(app_entry)
Collect(u, app_entry) == Append(u, app_entry)

ClassifyStep ==
    /\ pc_main = "classify"
    /\ idx <= Len(app_data)
    /\ updates' = IF Appended(app_data[idx]) THEN Collect(updates, app_data[idx])
                  ELSE updates
    /\ idx' = idx + 1
    /\ UNCHANGED <<pc_main, app_data, tpc, tries, sem_value, waiters, summary,
                   retry_on_exc, probe>>
    /\ UNCHANGED <<url, shown>>
    /\ UNCHANGED vvars

PrintSummary ==
    /\ pc_main = "classify"
    /\ idx > Len(app_data)
    /\ summary' = IF updates # <<>> THEN "Available Updates" ELSE "No Updates Found"
    /\ pc_main' = "done"
    /\ UNCHANGED <<app_data, tpc, tries, sem_value, waiters, updates, idx,
                   retry_on_exc, probe>>
    /\ UNCHANGED <<url, shown>>
    /\ UNCHANGED vvars

Next ==
    \/ FetchConfigOk
    \/ FetchConfigFail
    \/ \E i \in Tasks : TaskStart(i)
    \/ \E i \in Tasks : TaskResume(i)
    \/ \E i \in Tasks : AttemptRetry(i)
    \/ \E i \in Tasks : LookupReturns(i)
    \/ \E i \in Tasks : LookupRaises(i)
    \/ GatherReturns
    \/ GatherRaises
    \/ Shutdown
    \/ ClassifyStep
    \/ PrintSummary

Spec == Init /\ [][Next]_vars

-----------------------------------------------------------------------------
(* Properties of the version functions *)

HasDigit(s) == \E i \in 1..Len(s) : IsDigit(s[i])

\* only digits and single dots, no dot at either end
WellFormed(s) ==
    /\ \A i \in 1..Len(s) : IsDigit(s[i]) \/ s[i] = "."
    /\ \A i \in 1..(Len(s) - 1) : ~ (s[i] = "." /\ s[i + 1] = ".")
    /\ s # <<>> => (s[1] # "." /\ s[Len(s)] # ".")

\* the integer components of a string: the pieces of its normalized form, read as integers
RefComponents(s) ==
    LET n == normalize_version(s) IN
    IF n = <<>> THEN <<>> ELSE Release(n)

PadTo(r, n) == [i \in 1..n |-> IF i <= Len(r) THEN r[i] ELSE 0]

LexLess(x, y) ==
    \E i \in 1..Len(x) : x[i] < y[i] /\ \A j \in 1..(i - 1) : x[j] = y[j]

\* reference comparison: zero-pad the shorter sequence, compare lexicographically
RefCompare(a, b) ==
    LET ra == RefComponents(a)
        rb == RefComponents(b)
        n  == IF Len(ra) >= Len(rb) THEN Len(ra) ELSE Len(rb)
        x  == PadTo(ra, n)
        y  == PadTo(rb, n)
    IN  IF LexLess(x, y) THEN "update_available"
        ELSE IF LexLess(y, x) THEN "up_to_date"
        ELSE "versions_equal"

\* every digit of the string is one of 0-9
AsciiOnly(s) == \A i \in 1..Len(s) : s[i] \notin UnicodeDigits

\* C7 (as amended): for any two strings that each contain a digit and whose digits
\* are all ASCII 0-9, compare_versions equals the reference comparison of their
\* integer component sequences (zero-padded, lexicographic); "1.2" vs "1.2.1" is
\* update_available and "1.2.1" vs "1.2" is up_to_date.
C7_CompareIsReferenceAscii ==
    /\ compare_versions(<<"1", ".", "2">>, <<"1", ".", "2", ".", "1">>) = "update_available"
    /\ compare_versions(<<"1", ".", "2", ".", "1">>, <<"1", ".", "2">>) = "up_to_date"
    /\ (vpc = "compared" /\ HasDigit(va) /\ HasDigit(vb) /\ AsciiOnly(va) /\ AsciiOnly(vb))
            => vres = RefCompare(va, vb)

\* a shorter sequence against a longer one that extends it with a non-zero component
C7_Witness ==
    /\ vpc = "compared"
    /\ va = <<"1">>
    /\ vb = <<"1", ".", "1">>
    /\ vres = "update_available"

\* C7 (as stated): the same for any two strings that each contain a digit,
\* whatever digit characters they are written with.
C7_CompareIsReference ==
    /\ compare_versions(<<"1", ".", "2">>, <<"1", ".", "2", ".", "1">>) = "update_available"
    /\ compare_versions(<<"1", ".", "2", ".", "1">>, <<"1", ".", "2">>) = "up_to_date"
    /\ (vpc = "compared" /\ HasDigit(va) /\ HasDigit(vb)) => vres = RefCompare(va, vb)

\* C8: compare_versions is "unknown" whenever either argument has no integer
\* component (empty, or no digit at all), in either position.
C8_UnknownWithoutComponent ==
    /\ compare_versions(<<>>, <<"1", ".", "0">>) = "unknown"
    /\ compare_versions(<<"1", ".", "0">>, <<>>) = "unknown"
    /\ (vpc = "compared" /\ (~ HasDigit(va) \/ ~ HasDigit(vb))) => vres = "unknown"

C8_Witness ==
    /\ vpc = "compared"
    /\ va = <<"v">>
    /\ vb = <<"1", ".", "0">>
    /\ vres = "unknown"

\* C10: normalize_version is total and idempotent, maps the empty string to the
\* empty string, and its result has only digits and single dots with no dot at
\* either end.
C10_NormalizeIdempotent ==
    /\ vpc \in {"normalized", "renormalized"} =>
            /\ WellFormed(vout)
            /\ va = <<>> => vout = <<>>
    /\ vpc = "renormalized" => vout2 = vout

C10_Witness ==
    /\ vpc = "renormalized"
    /\ va = <<"v", "1", ".">>
    /\ vout = <<"1">>
    /\ vout2 = <<"1">>

\* the two strings have the same integer component sequence
SameComponents(a, b) == RefComponents(a) = RefComponents(b)

\* C11 (as amended): two strings that each contain a digit, whose digits are all
\* ASCII 0-9 and that have the same integer component sequence compare as
\* versions_equal in both argument orders, whatever their formatting; "v1.02.0"
\* and "1.2" compare as versions_equal; compare(x, x) is versions_equal.
C11_FormattingEqualAscii ==
    /\ compare_versions(<<"v", "1", ".", "0", "2", ".", "0">>, <<"1", ".", "2">>) = "versions_equal"
    /\ compare_versions(<<"1", ".", "2">>, <<"v", "1", ".", "0", "2", ".", "0">>) = "versions_equal"
    /\ (vpc = "compared" /\ HasDigit(va) /\ HasDigit(vb) /\ AsciiOnly(va) /\ AsciiOnly(vb)
            /\ SameComponents(va, vb))
            => /\ vres = "versions_equal"
               /\ compare_versions(vb, va) = "versions_equal"
               /\ compare_versions(va, va) = "versions_equal"

\* a leading zero and a leading letter against the plain number
C11_Witness ==
    /\ vpc = "compared"
    /\ va = <<"v", "0", "1">>
    /\ vb = <<"1">>
    /\ vres = "versions_equal"

\* C11 (as stated): the same for any two strings that each contain a digit,
\* whatever digit characters they are written with.
C11_FormattingEqual ==
    (vpc = "compared" /\ HasDigit(va) /\ HasDigit(vb) /\ SameComponents(va, vb))
        => /\ vres = "versions_equal"
           /\ compare_versions(vb, va) = "versions_equal"
           /\ compare_versions(va, va) = "versions_equal"

-----------------------------------------------------------------------------
(* Properties of the run *)

InLookup == {i \in Tasks : tpc[i] = "lookup"}

\* C1: the number of tasks inside the remote lookup (retry attempts included)
\* never exceeds the limit of the shared semaphore.
C1_ConcurrencyCeiling == Cardinality(InLookup) <= SEM_LIMIT

\* the gate is full with a lookup in its last attempt while another task queues
C1_Witness ==
    /\ Cardinality(InLookup) = SEM_LIMIT
    /\ \E i \in Tasks : tpc[i] = "lookup" /\ tries[i] = MaxAttempts
    /\ \E j \in Tasks : tpc[j] = "waiting"

\* C2: classification starts only after every record's resolution has settled:
\* while main_async classifies (or has finished), every task has returned and
\* every record carries its latest version.
C2_Barrier ==
    pc_main \in {"classify", "done"} =>
        \A i \in Tasks : tpc[i] = "done" /\ Len(app_data[i]) = 4

\* the first classification step is about to run; one record was found, one was not
C2_Witness ==
    /\ pc_main = "classify"
    /\ idx = 1
    /\ \E i \in Tasks : app_data[i][4] = <<>>
    /\ \E i \in Tasks : app_data[i][4] # <<>>

\* C3: a failure of one record's resolution, whatever its kind, never aborts the
\* batch: no task ends with an exception and main_async is never torn down by one.
C3_FailureContained ==
    /\ \A i \in Tasks : tpc[i] # "raised"
    /\ pc_main \notin {"crashed", "terminated"}

\* the update set the classification is to produce: both versions present, latest
\* neither inside nor at the start of installed, and the comparison says
\* update_available
OccursIn(x, y) == \E k \in 0..(Len(x) - Len(y)) : SubSeq(x, k + 1, k + Len(y)) = y

InUpdateSet(e) ==
    /\ Len(e) = 4
    /\ e[3] # <<>>
    /\ e[4] # <<>>
    /\ ~ OccursIn(e[3], e[4])
    /\ ~ (Len(e[4]) <= Len(e[3]) /\ \A k \in 1..Len(e[4]) : e[3][k] = e[4][k])
    /\ compare_versions(e[3], e[4]) = "update_available"

\* the sequence ClassifyStep builds over the given records, front to back
RECURSIVE UpdatesOver(_)
UpdatesOver(data) ==
    IF data = <<>> THEN <<>>
    ELSE LET rest == UpdatesOver(SubSeq(data, 1, Len(data) - 1))
             e    == data[Len(data)]
         IN  IF Appended(e) THEN Collect(rest, e) ELSE rest

Rec(name, id, installed, latest) == <<name, id, installed, latest>>

\* C5: once classification has finished, the update set holds exactly the records
\* with both versions present, not caught by the pre-filter, whose comparison is
\* update_available; "12.3 (4567)" against "12.3" is excluded, and of Foo
\* 1.0.0 -> 1.1.0 and Bar 2.0.0 -> 2.0.0 only Foo is included.
C5_UpdateSetExact ==
    /\ pc_main = "done" => updates = SelectSeq(app_data, InUpdateSet)
    /\ ~ Appended(Rec("App", "com.app",
                      <<"1", "2", ".", "3", " ", "(", "4", "5", "6", "7", ")">>,
                      <<"1", "2", ".", "3">>))
    /\ LET foo == Rec("Foo", "com.foo", <<"1", ".", "0", ".", "0">>, <<"1", ".", "1", ".", "0">>)
           bar == Rec("Bar", "com.bar", <<"2", ".", "0", ".", "0">>, <<"2", ".", "0", ".", "0">>)
       IN  UpdatesOver(<<foo, bar>>) = <<foo>>

\* a finished run with one record reported and another one held back by the pre-filter
C5_Witness ==
    /\ pc_main = "done"
    /\ updates # <<>>
    /\ \E i \in Tasks :
        /\ app_data[i][4] # <<>>
        /\ OccursIn(app_data[i][3], app_data[i][4])
        /\ compare_versions(app_data[i][3], app_data[i][4]) = "update_available"

\* x is a subsequence of y
RECURSIVE IsSubsequence(_, _)
IsSubsequence(x, y) ==
    IF x = <<>> THEN TRUE
    ELSE IF y = <<>> THEN FALSE
    ELSE IF x[1] = y[1] THEN IsSubsequence(Tail(x), Tail(y))
    ELSE IsSubsequence(x, Tail(y))

\* C6: the update set keeps the input order: it is always a subsequence of the
\* record list, whatever order the lookups completed in.
C6_InputOrder ==
    pc_main \in {"classify", "done"} => IsSubsequence(updates, app_data)

\* two records reported
C6_Witness ==
    /\ pc_main = "done"
    /\ Len(updates) >= 2

\* a record whose versions could be put in relation: both present, and either
\* caught by the pre-filter or compared with a result other than unknown
Checked(e) ==
    /\ Len(e) = 4
    /\ e[3] # <<>>
    /\ e[4] # <<>>
    /\ PreFiltered(e[3], e[4]) \/ compare_versions(e[3], e[4]) # "unknown"

NothingChecked == \A i \in Tasks : ~ Checked(app_data[i])

\* C9: the summary of a run in which nothing could be checked differs from the
\* summary "No Updates Found" of a run in which records were checked and none
\* needs an update.
C9_SummaryDistinguishes ==
    (pc_main = "done" /\ NothingChecked) => summary # "No Updates Found"

\* a run in which records were checked and none needs an update prints
\* "No Updates Found"
C9_CheckedRunPrintsNoUpdates ==
    (pc_main = "done" /\ ~ NothingChecked /\ updates = <<>>) => summary = "No Updates Found"

\* C12: a lookup that ends on a non-2xx status, 4xx as well as 5xx, has been
\* attempted MaxAttempts times.
C12_NonSuccessStatusRetried ==
    (tpc[1] = "done" /\ probe.outcome \in {"status4xx", "status5xx"})
        => probe.attempts = MaxAttempts

\* C13: a record the pre-filter skips is already current: its comparison would
\* not have returned update_available.
C13_PreFilterOnlyCurrent ==
    pc_main \in {"classify", "done"} =>
        \A i \in Tasks :
            (Len(app_data[i]) = 4 /\ app_data[i][3] # <<>> /\ app_data[i][4] # <<>>
                /\ PreFiltered(app_data[i][3], app_data[i][4]))
            => compare_versions(app_data[i][3], app_data[i][4]) # "update_available"

\* C14: a lookup miss is not retried: once an attempt of the first record's lookup
\* has ended in a 2xx page without the version cell, the lookup is over at that
\* attempt, the task has returned without an exception and the record carries
\* the empty string.
C14_MissNotRetried ==
    probe.outcome = "miss" =>
        /\ tpc[1] = "done"
        /\ Len(app_data[1]) = 4
        /\ app_data[1][4] = <<>>

\* the first attempt of the first record's lookup was a miss
C14_Witness ==
    /\ probe.outcome = "miss"
    /\ probe.attempts = 1
    /\ tpc[1] = "done"
    /\ app_data[1][4] = <<>>

\* record i is as it was loaded: name, identifier and installed version in place
Loaded(e, i) ==
    /\ Len(e) >= 3
    /\ e[1] = Names[i]
    /\ e[2] = Identifiers[i]
    /\ e[3] \in {InstalledChoices[k] : k \in 1..Len(InstalledChoices)}

\* C15: each record is changed exactly once, by its own task: a step changes
\* record i only when task i returns from its lookup, it appends one field and
\* leaves the first three alone, and the first record's new field is non-empty
\* exactly when its lookup found a version; once fetch_latest_versions has
\* returned every record has length 4 and no step changes a record any more.
C15_MutatedOnceByOwnTask ==
    /\ [](\A i \in Tasks : Loaded(app_data[i], i))
    /\ [](pc_main \in {"classify", "done"} => \A i \in Tasks : Len(app_data[i]) = 4)
    /\ [][ /\ \A i \in Tasks :
                app_data'[i] # app_data[i] =>
                    /\ tpc[i] = "lookup" /\ tpc'[i] = "done"
                    /\ Len(app_data[i]) = 3 /\ Len(app_data'[i]) = 4
                    /\ SubSeq(app_data'[i], 1, 3) = app_data[i]
                    /\ \A j \in Tasks \ {i} : app_data'[j] = app_data[j]
                    /\ i = 1 => (app_data'[1][4] # <<>> <=> probe'.outcome = "found")
           /\ pc_main \in {"classify", "done"} => app_data' = app_data ]_vars

\* classification has finished; the first record was not found, the second was
C15_Witness ==
    /\ pc_main = "done"
    /\ \A i \in Tasks : Len(app_data[i]) = 4
    /\ app_data[1][4] = <<>>
    /\ app_data[2][4] # <<>>
    /\ probe.outcome = "miss"

\* C16: the identifier mapping affects the remote query only: the URL of a started
\* task carries "com.bravo.mac" for "com.bravo" and the record's own identifier
\* for every other record, while the record, the progress line and the update
\* set keep the identifier the record was loaded with.
C16_MappingOnlyInQuery ==
    /\ \A i \in Tasks :
        /\ url[i] # <<>> =>
              url[i] = <<"https://macupdater.net/app_updates/appinfo/",
                         IF Identifiers[i] = "com.bravo" THEN "com.bravo.mac"
                                                         ELSE Identifiers[i],
                         "/index.html">>
        /\ app_data[i][2] = Identifiers[i]
        /\ shown[i] # <<>> => shown[i] = <<Names[i], Identifiers[i]>>
    /\ \A k \in 1..Len(updates) :
        \E i \in Tasks : updates[k] = app_data[i] /\ updates[k][2] = Identifiers[i]

\* the mapped record was queried, shown and reported as an update
C16_Witness ==
    /\ pc_main = "done"
    /\ url[2][2] = "com.bravo.mac"
    /\ shown[2] = <<"bravo", "com.bravo">>
    /\ \E k \in 1..Len(updates) : updates[k][2] = "com.bravo"
    /\ url[1][2] = "com.alpha"

\* C17: a configuration failure ends the run before any task is started and
\* without a report, and nothing else ends it: with the configuration loaded,
\* main_async is never ended by an exception of a lookup.
C17_OnlyConfigTerminates ==
    /\ pc_main = "exited" =>
            /\ \A i \in Tasks : tpc[i] = "none" /\ Len(app_data[i]) = 3
            /\ summary = "none"
            /\ updates = <<>>
    /\ pc_main \notin {"crashed", "terminated"}

\* slots of the semaphore that are taken
Held == SEM_LIMIT - sem_value

SemaphoreExists == pc_main \notin {"config", "exited"}

\* C18 (as amended): no slot leaks: the taken slots are those of the tasks inside
\* the lookup and of the waiters a release has handed a slot to that have not
\* resumed yet, and once fetch_latest_versions has returned all SEM_LIMIT slots
\* are free.
C18_NoSlotLeakHandedOver ==
    /\ SemaphoreExists => Held = Count(tpc, "lookup") + Count(tpc, "granted")
    /\ pc_main \in {"classify", "done"} => sem_value = SEM_LIMIT /\ waiters = <<>>

\* a release has handed the only taken slot to a waiter that has not resumed
C18_Witness ==
    /\ pc_main = "gather"
    /\ Count(tpc, "granted") = 1
    /\ Count(tpc, "lookup") = 0
    /\ Held = 1

\* C18 (as stated): the number of taken slots always equals the number of tasks
\* inside the lookup, and at the barrier all SEM_LIMIT slots are free.
C18_NoSlotLeak ==
    /\ SemaphoreExists => Held = Count(tpc, "lookup")
    /\ pc_main \in {"classify", "done"} => sem_value = SEM_LIMIT

\* a step of task i
TaskStep(i) ==
    TaskStart(i) \/ TaskResume(i) \/ AttemptRetry(i) \/ LookupReturns(i) \/ LookupRaises(i)

\* a step of main_async at the gather
GatherStep == GatherReturns \/ GatherRaises \/ Shutdown

\* the event loop runs every task that is ready, and main_async once the gather
\* is ready
FairSpec ==
    /\ Spec
    /\ \A i \in Tasks : WF_vars(TaskStep(i))
    /\ WF_vars(GatherStep)

\* C19: under fair scheduling the batch always finishes: once the tasks exist,
\* every record eventually carries its latest version and fetch_latest_versions
\* returns, so that classification runs.
C19_BatchFinishes ==
    (pc_main = "gather") ~>
        (pc_main = "classify" /\ \A i \in Tasks : tpc[i] = "done" /\ Len(app_data[i]) = 4)

====
